---- MODULE Spec2Model ----
(***************************************************************************)
(* A model of the financial_modelling package: PortfolioOptimizer          *)
(* (optimization.py), FinancialModel and PortfolioModel (models.py) and    *)
(* MetricsCalculator (metrics.py) and DataManager (data_manager.py).       *)
(*                                                                         *)
(* Numbers.  A float is modelled by an exact extended rational             *)
(* [n |-> numerator, d |-> denominator]: d > 0 is a finite value in lowest *)
(* terms, d = 0 is one of the IEEE specials: n = 1 is +inf, n = -1 is      *)
(* -inf, n = 0 is NaN.  A square root of a positive rational is kept as    *)
(* the surd [sqrt |-> x] and a quotient by a surd as [num |-> a, den |-> s]*)
(* so that no rounding is introduced by the model.  Rounding error of the  *)
(* floating-point operations themselves is not modelled.                   *)
(*                                                                         *)
(* Records.  A record constructor lists its fields in the order in which   *)
(* the field names first occur in this module, the order in which TLC      *)
(* keeps them, so that no worker of TLC reorders a constructor's fields.   *)
(***************************************************************************)
EXTENDS Integers, Sequences, FiniteSets, TLC

VARIABLES
    opt,        \* the PortfolioOptimizer instance (its attributes)
    heap,       \* the weight arrays allocated by the calls so far
    results,    \* the OptimizationResults returned so far, oldest first
    call,       \* what the last call did: operation, solver status, outcome
    ef,         \* generate_efficient_frontier: position of the running call
    frontier,   \* the dictionary generate_efficient_frontier returned, while
                \* it is the last call
    fm,         \* the FinancialModel instance
    pm,         \* the PortfolioModel instance
    last,       \* the last call on fm or pm: operation, arguments, outcome
    rng,        \* the state of numpy's global random generator
    sims,       \* the calculate_monte_carlo_var calls so far, oldest first
    dm,         \* the DataManager instance
    disk        \* the cache files in the DataManager's cache directory

optimizerVars == <<opt, heap, results, call, ef, frontier>>
modelVars == <<fm, pm, last>>
metricsVars == <<rng, sims>>
dataVars == <<dm, disk>>

vars == <<opt, heap, results, call, ef, frontier, fm, pm, last, rng, sims, dm, disk>>

----------------------------------------------------------------------------
(* Bounds of the model                                                     *)

\* weights handled by the solver lie on the grid k / WDen
WDen == 2
\* an iterate the solver stops at without converging lies on the grid k / FailDen
FailDen == 1
\* number of OptimizationResults kept in the history
MaxResults == 2
\* largest num_portfolios given to generate_efficient_frontier between other calls
MaxPortfolios == 1
\* largest num_portfolios given to generate_efficient_frontier on its own
MaxSweep == 3

\* annualisation factor of the sample mean and covariance
TradingDays == 252

----------------------------------------------------------------------------
(* Extended rationals                                                      *)

Abs(k) == IF k < 0 THEN -k ELSE k

Sgn(k) == IF k < 0 THEN -1 ELSE IF k > 0 THEN 1 ELSE 0

RECURSIVE GCD(_, _)
GCD(a, b) == IF b = 0 THEN a ELSE GCD(b, a % b)

Rat(n, d) ==
    IF d = 0 THEN [n |-> Sgn(n), d |-> 0]
    ELSE LET g == GCD(Abs(n), Abs(d))
         IN  [n |-> (Sgn(d) * n) \div g, d |-> Abs(d) \div g]

Zero == [n |-> 0, d |-> 1]
One == [n |-> 1, d |-> 1]
NaN == [n |-> 0, d |-> 0]
PosInf == [n |-> 1, d |-> 0]
NegInf == [n |-> -1, d |-> 0]

IsRat(v) == DOMAIN v = {"n", "d"}
IsNaN(a) == IsRat(a) /\ a.d = 0 /\ a.n = 0
IsFinite(a) == IsRat(a) /\ a.d # 0

RNeg(a) == [n |-> -a.n, d |-> a.d]

RAdd(a, b) ==
    IF a.d # 0 /\ b.d # 0
    THEN LET g == GCD(a.d, b.d)
         IN  Rat(a.n * (b.d \div g) + b.n * (a.d \div g), (a.d \div g) * b.d)
    ELSE IF IsNaN(a) \/ IsNaN(b) THEN NaN
    ELSE IF a.d = 0 /\ b.d = 0 THEN (IF a.n = b.n THEN a ELSE NaN)
    ELSE IF a.d = 0 THEN a ELSE b

RSub(a, b) == RAdd(a, RNeg(b))

\* inf * 0 and NaN * x come out as n = 0, d = 0
RMul(a, b) ==
    IF a.d = 0 \/ b.d = 0 THEN Rat(Sgn(a.n) * Sgn(b.n), 0)
    ELSE Rat(a.n * b.n, a.d * b.d)

Recip(b) ==
    IF b.d = 0 THEN (IF b.n = 0 THEN NaN ELSE Zero)
    ELSE IF b.n = 0 THEN PosInf
    ELSE Rat(b.d, b.n)

\* numpy float64 division: x / 0 is +-inf, 0 / 0 is NaN, nothing is raised
RDiv(a, b) == RMul(a, Recip(b))

RAbs(a) == [n |-> Abs(a.n), d |-> a.d]

\* every comparison with NaN is false
RLe(a, b) ==
    /\ ~IsNaN(a)
    /\ ~IsNaN(b)
    /\ IF a.d = 0 /\ b.d = 0 THEN a.n <= b.n
       ELSE IF a.d = 0 THEN a.n < 0
       ELSE IF b.d = 0 THEN b.n > 0
       ELSE a.n * b.d <= b.n * a.d

RLt(a, b) == RLe(a, b) /\ a # b

RECURSIVE RSum(_)
RSum(s) == IF s = <<>> THEN Zero ELSE RAdd(Head(s), RSum(Tail(s)))

\* the largest r in lo..hi with r * r <= k
RECURSIVE ISqrtIn(_, _, _)
ISqrtIn(k, lo, hi) ==
    IF lo >= hi THEN lo
    ELSE LET mid == (lo + hi + 1) \div 2
         IN  IF mid * mid <= k THEN ISqrtIn(k, mid, hi) ELSE ISqrtIn(k, lo, mid - 1)

ISqrt(k) == ISqrtIn(k, 0, IF k < 46340 THEN k ELSE 46340)

IsSquare(k) == ISqrt(k) * ISqrt(k) = k

\* numpy.sqrt: NaN for a negative or NaN argument; the root of a rational that
\* has no rational root is kept as a surd
np_sqrt(x) ==
    IF IsNaN(x) \/ RLt(x, Zero) THEN NaN
    ELSE IF x.d = 0 \/ x.n = 0 THEN x
    ELSE IF IsSquare(x.n) /\ IsSquare(x.d) THEN Rat(ISqrt(x.n), ISqrt(x.d))
    ELSE [sqrt |-> x]

\* a / b where b may be a surd
FDiv(a, b) ==
    IF IsRat(b) THEN RDiv(a, b)
    ELSE IF a.d = 0 \/ a.n = 0 THEN a
    ELSE [num |-> a, den |-> b]

\* sign(v) * v^2, an increasing function of v that is rational for every value
SSq(v) ==
    IF IsRat(v) THEN RMul(v, RAbs(v))
    ELSE IF "sqrt" \in DOMAIN v THEN v.sqrt
    ELSE RDiv(RMul(v.num, RAbs(v.num)), v.den.sqrt)

VLe(u, v) == RLe(SSq(u), SSq(v))

----------------------------------------------------------------------------
(* Sample return matrices: rows are periods, columns assets, entries are   *)
(* period returns in percent                                               *)

ReturnMatrices ==
    { [assets |-> <<"ETF1">>,
       rows |-> << <<1>>, <<-1>>, <<2>> >>],
      [assets |-> <<"ETF1", "ETF2">>,
       rows |-> << <<1, 0>>, <<-1, 2>>, <<2, 1>> >>],
      [assets |-> <<"ETF1", "ETF2">>,
       rows |-> << <<0, 0>>, <<0, 0>> >>] }

NRows(m) == Len(m.rows)
NCols(m) == Len(m.assets)

Col(m, i) == [t \in 1..NRows(m) |-> Rat(m.rows[t][i], 100)]

\* DataFrame.mean(): NaN for an empty column
Mean(s) == RDiv(RSum(s), Rat(Len(s), 1))

\* DataFrame.cov(): the sample covariance (ddof = 1), NaN for fewer than 2 rows
Cov(s, u) ==
    LET ms == Mean(s)
        mu == Mean(u)
    IN  RDiv(RSum([t \in 1..Len(s) |-> RMul(RSub(s[t], ms), RSub(u[t], mu))]),
             Rat(Len(s) - 1, 1))

----------------------------------------------------------------------------
(* PortfolioOptimizer                                                      *)

Dot(a, b) == RSum([i \in 1..Len(a) |-> RMul(a[i], b[i])])

\* __init__: stores its arguments, the annualised sample means and covariances
PortfolioOptimizer(returns, risk_free_rate, min_weight, max_weight) ==
    [assets |-> returns.assets,
     returns |-> returns,
     risk_free_rate |-> risk_free_rate,
     min_weight |-> min_weight,
     max_weight |-> max_weight,
     expected_returns |->
        [i \in 1..NCols(returns) |->
            RMul(Mean(Col(returns, i)), Rat(TradingDays, 1))],
     cov_matrix |->
        [i \in 1..NCols(returns) |->
            [j \in 1..NCols(returns) |->
                RMul(Cov(Col(returns, i), Col(returns, j)), Rat(TradingDays, 1))]]]

\* (portfolio_return, portfolio_volatility, sharpe_ratio) of a weight vector
_calculate_portfolio_metrics(self, weights) ==
    LET portfolio_return == Dot(self.expected_returns, weights)
        portfolio_variance ==
            Dot(weights, [i \in 1..Len(weights) |-> Dot(self.cov_matrix[i], weights)])
        portfolio_volatility == np_sqrt(portfolio_variance)
        sharpe_ratio ==
            FDiv(RSub(portfolio_return, self.risk_free_rate), portfolio_volatility)
    IN  <<portfolio_return, portfolio_volatility, sharpe_ratio>>

FNeg(v) == IF IsRat(v) THEN RNeg(v) ELSE [num |-> RNeg(v.num), den |-> v.den]

\* the Sharpe ratio itself in place of its negative
_positive_sharpe(self, weights) == _calculate_portfolio_metrics(self, weights)[3]

_negative_sharpe(self, weights) == FNeg(_calculate_portfolio_metrics(self, weights)[3])

\* the negative of the expected return in place of the volatility
_portfolio_volatility_as_return(self, weights) ==
    RNeg(_calculate_portfolio_metrics(self, weights)[1])

_portfolio_volatility(self, weights) == _calculate_portfolio_metrics(self, weights)[2]

_negative_return(self, weights) == RNeg(_calculate_portfolio_metrics(self, weights)[1])

Objective(self, fun, weights) ==
    CASE fun = "_negative_sharpe" -> _negative_sharpe(self, weights)
      [] fun = "_portfolio_volatility" -> _portfolio_volatility(self, weights)
      [] fun = "_negative_return" -> _negative_return(self, weights)

\* OptimizationResult: weights is a reference to an array of the heap
OptimizationResult(weights, expected_return, volatility, sharpe_ratio) ==
    [weights |-> weights,
     sharpe_ratio |-> sharpe_ratio,
     expected_return |-> expected_return,
     volatility |-> volatility]

(* scipy.optimize.minimize(fun, x0, method="SLSQP", bounds, constraints).   *)
(* The solver is a library: its iterates are not modelled.  A call ends in  *)
(* one of three ways.  It raises ValueError when a lower bound exceeds its  *)
(* upper bound.  It reports success with a point that satisfies the bounds  *)
(* and the equality constraints and that no feasible point of the grid      *)
(* improves on.  Or it reports failure (iteration limit, infeasible         *)
(* constraints, ...) and x is whatever iterate it stopped at.  The callers  *)
(* read only result.x.                                                      *)

\* the starting point of every solve: np.array([1 / n_assets] * n_assets)
initial_weights(n_assets) == [i \in 1..n_assets |-> Rat(1, n_assets)]

\* the points a converged solve is compared with: the grid and the starting point
Grid(n) ==
    { [i \in 1..n |-> Rat(f[i], WDen)] : f \in [1..n -> 0..WDen] }
    \cup { initial_weights(n) }

Iterates(n) == { [i \in 1..n |-> Rat(f[i], FailDen)] : f \in [1..n -> 0..FailDen] }

NoTarget == [has |-> FALSE, target |-> Zero]
Target(t) == [has |-> TRUE, target |-> t]

InBounds(self, x) ==
    \A i \in 1..Len(x) : RLe(self.min_weight, x[i]) /\ RLe(x[i], self.max_weight)

\* the bounds and the target without the constraint that the weights sum to 1
Feasible_without_sum(self, cons, x) ==
    /\ InBounds(self, x)
    /\ cons.has => Dot(self.expected_returns, x) = cons.target

Feasible(self, cons, x) ==
    /\ InBounds(self, x)
    /\ RSum(x) = One
    /\ cons.has => Dot(self.expected_returns, x) = cons.target

VLt(u, v) == VLe(u, v) /\ SSq(u) # SSq(v)

minimize(self, fun, cons) ==
    LET n == Len(self.assets)
        F == { x \in Grid(n) : Feasible(self, cons, x) }
        value == [x \in F |-> Objective(self, fun, x)]
        best == { x \in F : \A y \in F : ~VLt(value[y], value[x]) }
    IN  IF RLt(self.max_weight, self.min_weight)
        THEN { [x |-> <<>>, status |-> "raised"] }
        ELSE { [x |-> x, status |-> "converged"] : x \in best }
             \cup { [x |-> x, status |-> "failed"] : x \in Iterates(n) }

----------------------------------------------------------------------------
(* State after construction                                                *)

RiskFreeRates == { Rat(4, 100) }

\* (min_weight, max_weight): the default, a cap, an infeasible floor and a
\* lower bound above the upper bound
WeightBounds ==
    { <<Zero, One>>, <<Zero, Rat(1, 2)>>, <<One, One>>, <<One, Zero>> }

NoObject == [none |-> TRUE]

NoCall == [op |-> "none"]

ModelsUnused == fm = NoObject /\ pm = NoObject /\ last = NoCall

MetricsUnused == rng = 0 /\ sims = <<>>

DataUnused == dm = NoObject /\ disk = {}

NoFrontier == [returns |-> <<>>, volatilities |-> <<>>, sharpe_ratios |-> <<>>]

EfIdle ==
    [i |-> 1, returns |-> <<>>, volatilities |-> <<>>, pc |-> "idle",
     num_portfolios |-> 0, target_returns |-> <<>>, sharpes |-> <<>>, nonconverged |-> 0,
     min_ret |-> Zero, max_ret |-> Zero]

Init ==
    /\ \E returns \in ReturnMatrices, rf \in RiskFreeRates, b \in WeightBounds :
          opt = PortfolioOptimizer(returns, rf, b[1], b[2])
    /\ heap = <<>>
    /\ results = <<>>
    /\ call = [op |-> "__init__", solver |-> "none", outcome |-> "returned", solves |-> 0]
    /\ ef = EfIdle
    /\ frontier = NoFrontier
    /\ ModelsUnused
    /\ MetricsUnused
    /\ DataUnused

----------------------------------------------------------------------------
(* The operations of PortfolioOptimizer                                    *)

Idle == ef.pc = "idle" /\ Len(results) < MaxResults

\* the shared body of the four optimize_* methods: run the solver from the
\* uniform start, wrap result.x in a Series and compute its metrics
Optimize(op, fun, cons) ==
    /\ Idle
    /\ \E out \in minimize(opt, fun, cons) :
          IF out.status = "raised"
          THEN /\ call' = [cons |-> cons, op |-> op, solver |-> "raised",
                           outcome |-> "raised", solves |-> 1]
               /\ UNCHANGED <<heap, results>>
          ELSE LET m == _calculate_portfolio_metrics(opt, out.x)
               IN  /\ heap' = Append(heap, out.x)
                   /\ results' = Append(results,
                                    OptimizationResult(Len(heap) + 1, m[1], m[2], m[3]))
                   /\ call' = [cons |-> cons, op |-> op,
                               solver |-> out.status, outcome |-> "returned", solves |-> 1]
    /\ frontier' = NoFrontier
    /\ UNCHANGED <<opt, ef, modelVars, metricsVars, dataVars>>

optimize_max_sharpe == Optimize("optimize_max_sharpe", "_negative_sharpe", NoTarget)

optimize_min_volatility ==
    Optimize("optimize_min_volatility", "_portfolio_volatility", NoTarget)

optimize_max_return == Optimize("optimize_max_return", "_negative_return", NoTarget)

\* the target returns a caller asks for: the returns of the grid portfolios and
\* one no portfolio attains
TargetReturns(self) ==
    { Dot(self.expected_returns, x) : x \in { y \in Grid(Len(self.assets)) : RSum(y) = One } }
    \cup { Rat(10, 1) }

optimize_target_return ==
    \E target_return \in TargetReturns(opt) :
        Optimize("optimize_target_return", "_portfolio_volatility", Target(target_return))

\* the closed-form results: no solver call
ClosedForm(op, weights) ==
    LET m == _calculate_portfolio_metrics(opt, weights)
    IN  /\ Idle
        /\ heap' = Append(heap, weights)
        /\ results' = Append(results, OptimizationResult(Len(heap) + 1, m[1], m[2], m[3]))
        /\ call' = [op |-> op, solver |-> "none", outcome |-> "returned", solves |-> 0]
        /\ frontier' = NoFrontier
        /\ UNCHANGED <<opt, ef, modelVars, metricsVars, dataVars>>

\* 1 // n_assets in place of 1 / n_assets
equal_weight_array_floor(n_assets) == [i \in 1..n_assets |-> Rat(1 \div n_assets, 1)]

equal_weight_array(n_assets) == [i \in 1..n_assets |-> Rat(1, n_assets)]

\* the weights kept in one array that every call overwrites and returns
equal_weight_shared ==
    LET weights == equal_weight_array(Len(opt.assets))
        m == _calculate_portfolio_metrics(opt, weights)
    IN  /\ Idle
        /\ heap' = IF heap = <<>> THEN <<weights>> ELSE [heap EXCEPT ![1] = weights]
        /\ results' = Append(results, OptimizationResult(1, m[1], m[2], m[3]))
        /\ call' = [op |-> "equal_weight", solver |-> "none", outcome |-> "returned",
                    solves |-> 0]
        /\ frontier' = NoFrontier
        /\ UNCHANGED <<opt, ef, modelVars, metricsVars, dataVars>>

equal_weight == ClosedForm("equal_weight", equal_weight_array(Len(opt.assets)))

CapValues == { 0, 3 }

MarketCapKeys(self) == { self.assets[i] : i \in 1..Len(self.assets) } \cup { "OTHER" }

\* market_caps.get(asset, 0.0) in place of market_caps.get(asset, 1.0)
cap_weight_array_default_zero(self, market_caps) ==
    LET caps == [i \in 1..Len(self.assets) |->
                    IF self.assets[i] \in DOMAIN market_caps
                    THEN Rat(market_caps[self.assets[i]], 1) ELSE Zero]
    IN  [i \in 1..Len(caps) |-> RDiv(caps[i], RSum(caps))]

\* market_caps.get(asset, 1.0) for each asset, divided by their sum
cap_weight_array(self, market_caps) ==
    LET caps == [i \in 1..Len(self.assets) |->
                    IF self.assets[i] \in DOMAIN market_caps
                    THEN Rat(market_caps[self.assets[i]], 1) ELSE One]
    IN  [i \in 1..Len(caps) |-> RDiv(caps[i], RSum(caps))]

MarketCaps(self) == UNION { [keys -> CapValues] : keys \in SUBSET MarketCapKeys(self) }

cap_weight ==
    \E weights \in { cap_weight_array(opt, market_caps) : market_caps \in MarketCaps(opt) } :
        ClosedForm("cap_weight", weights)

\* numpy.linspace(start, stop, num): both end points included, one point
\* (start) when num = 1, none when num = 0
linspace(start, stop, num) ==
    [k \in 1..num |->
        IF num = 1 THEN start
        ELSE RAdd(start, RMul(Rat(k - 1, num - 1), RSub(stop, start)))]

\* the expected_return attribute of the results an optimize_* call may return
ExpectedReturns(self, outcomes) ==
    { _calculate_portfolio_metrics(self, out.x)[1] :
        out \in { o \in outcomes : o.status # "raised" } }

\* generate_efficient_frontier, lines 206-212: the two end-point optimisations
\* (outside the try block) and the target returns
GenerateEfficientFrontier(counts) ==
    /\ Idle
    /\ LET lo == minimize(opt, "_portfolio_volatility", NoTarget)
           hi == minimize(opt, "_negative_return", NoTarget)
       IN  IF \E out \in lo \cup hi : out.status = "raised"
           THEN /\ call' = [op |-> "generate_efficient_frontier", solver |-> "raised",
                            outcome |-> "raised", solves |-> 1]
                /\ ef' = ef
           ELSE \E min_ret \in ExpectedReturns(opt, lo),
                   max_ret \in ExpectedReturns(opt, hi),
                   num_portfolios \in counts :
                    /\ ef' = [EfIdle EXCEPT
                                !.pc = "loop",
                                !.num_portfolios = num_portfolios,
                                !.min_ret = min_ret,
                                !.max_ret = max_ret,
                                !.target_returns =
                                    linspace(min_ret, max_ret, num_portfolios)]
                    /\ call' = [op |-> "generate_efficient_frontier",
                                solver |-> "none", outcome |-> "running", solves |-> 2]
    /\ frontier' = NoFrontier
    /\ UNCHANGED <<opt, heap, results, modelVars, metricsVars, dataVars>>

generate_efficient_frontier == GenerateEfficientFrontier(0..MaxPortfolios)

generate_efficient_frontier_sweep == GenerateEfficientFrontier(0..MaxSweep)

\* one pass of the loop of lines 214-221: optimize_target_return inside
\* try/except; an exception skips the target, a returned result is appended
\* whatever the solver reported
frontier_iteration ==
    /\ ef.pc = "loop"
    /\ ef.i <= Len(ef.target_returns)
    /\ \E out \in minimize(opt, "_portfolio_volatility", Target(ef.target_returns[ef.i])) :
          LET m == _calculate_portfolio_metrics(opt, out.x)
              missed == IF out.status = "converged" THEN 0 ELSE 1
          IN  IF out.status = "raised"
              THEN ef' = [ef EXCEPT !.i = @ + 1, !.nonconverged = @ + missed]
              ELSE ef' = [ef EXCEPT
                            !.i = @ + 1,
                            !.nonconverged = @ + missed,
                            !.returns = Append(@, m[1]),
                            !.volatilities = Append(@, m[2]),
                            !.sharpes = Append(@, m[3])]
    /\ call' = [call EXCEPT !.solves = @ + 1]
    /\ UNCHANGED <<opt, heap, results, frontier, modelVars, metricsVars, dataVars>>

\* lines 223-227: the three arrays are returned
frontier_return ==
    /\ ef.pc = "loop"
    /\ ef.i > Len(ef.target_returns)
    /\ frontier' = [returns |-> ef.returns,
                    volatilities |-> ef.volatilities,
                    sharpe_ratios |-> ef.sharpes]
    /\ call' = [op |-> "generate_efficient_frontier", num_portfolios |-> ef.num_portfolios,
                nonconverged |-> ef.nonconverged, solver |-> "none",
                outcome |-> "returned",
                solves |-> call.solves]
    /\ ef' = EfIdle
    /\ UNCHANGED <<opt, heap, results, modelVars, metricsVars, dataVars>>

Next ==
    \/ equal_weight
    \/ cap_weight
    \/ optimize_max_sharpe
    \/ optimize_min_volatility
    \/ optimize_max_return
    \/ optimize_target_return
    \/ generate_efficient_frontier
    \/ frontier_iteration
    \/ frontier_return

Spec == Init /\ [][Next]_vars

\* generate_efficient_frontier alone, with more target returns
NextFrontier ==
    \/ generate_efficient_frontier_sweep
    \/ frontier_iteration
    \/ frontier_return

SpecFrontier == Init /\ [][NextFrontier]_vars

----------------------------------------------------------------------------
(* numpy and pandas helpers of models.py and metrics.py                    *)

RECURSIVE Insert(_, _)
Insert(x, s) ==
    IF s = <<>> THEN <<x>>
    ELSE IF RLe(x, Head(s)) THEN <<x>> \o s
    ELSE <<Head(s)>> \o Insert(x, Tail(s))

RECURSIVE SortAsc(_)
SortAsc(s) == IF s = <<>> THEN <<>> ELSE Insert(Head(s), SortAsc(Tail(s)))

\* numpy.percentile(a, q), q in percent: linear interpolation between the two
\* order statistics around position q/100 * (n - 1)
np_percentile(a, q) ==
    LET s == SortAsc(a)
        n == Len(a)
        pos == RMul(RDiv(q, Rat(100, 1)), Rat(n - 1, 1))
        lo == pos.n \div pos.d
        frac == RSub(pos, Rat(lo, 1))
    IN  IF n = 0 THEN NaN
        ELSE IF lo + 1 >= n THEN s[n]
        ELSE RAdd(s[lo + 1], RMul(frac, RSub(s[lo + 2], s[lo + 1])))

\* a[a >= bound]
AtOrAbove(a, bound) == SelectSeq(a, LAMBDA x : RLe(bound, x))

\* a[a <= bound]
AtOrBelow(a, bound) == SelectSeq(a, LAMBDA x : RLe(x, bound))

\* Series.std(): the sample standard deviation (ddof = 1)
Std(s) == np_sqrt(Cov(s, s))

\* x * numpy.sqrt(k) for an integer k > 0
TimesSqrt(x, k) ==
    IF IsRat(x) THEN (IF x.d = 0 \/ x.n = 0 THEN x
                      ELSE np_sqrt(RMul(RMul(x, x), Rat(k, 1))))
    ELSE np_sqrt(RMul(x.sqrt, Rat(k, 1)))

\* b ** e for b > 0: 1.0 ** e is 1.0, any other power is kept unevaluated
\* together with the rational added to it
FPow(b, e) == IF b = One THEN One ELSE [base |-> b, exp |-> e, plus |-> Zero]

FPlus(v, r) == IF IsRat(v) THEN RAdd(v, r) ELSE [v EXCEPT !.plus = RAdd(@, r)]

\* a / b where a may be an unevaluated power
FQuot(a, b) ==
    IF IsRat(a) THEN FDiv(a, b)
    ELSE IF IsRat(b) /\ IsNaN(b) THEN NaN
    ELSE [num |-> a, den |-> b]

None == [none |-> TRUE]

Returns(value) == [value |-> value, outcome |-> "returned"]

Raises(exception) == [value |-> exception, outcome |-> "raised"]

----------------------------------------------------------------------------
(* FinancialModel                                                          *)

\* prices.pct_change().dropna()
pct_change_dropna(prices) ==
    [t \in 1..(Len(prices) - 1) |-> RSub(RDiv(prices[t + 1], prices[t]), One)]

FinancialModel(prices, risk_free_rate) ==
    [returns |-> pct_change_dropna(prices),
     risk_free_rate |-> risk_free_rate,
     prices |-> prices]

\* prices.iloc[-1] of an empty Series raises IndexError
FinancialModel_calculate_annualized_return(self) ==
    IF self.prices = <<>> THEN Raises("IndexError")
    ELSE LET total_return ==
                 RSub(RDiv(self.prices[Len(self.prices)], self.prices[1]), One)
             years == Rat(Len(self.prices), TradingDays)
         IN  IF years = Zero THEN Returns(Zero)
             ELSE Returns(FPlus(FPow(RAdd(One, total_return), Recip(years)), RNeg(One)))

FinancialModel_calculate_annualized_volatility(self) ==
    TimesSqrt(Std(self.returns), TradingDays)

\* an outcome of calculate_sharpe_ratio with the volatility that reached line 87
SharpeOutcome(out, volatility) ==
    [volatility |-> volatility, value |-> out.value, outcome |-> out.outcome]

\* the Sharpe ratio without the test of line 87
FinancialModel_calculate_sharpe_ratio_unguarded(self, annualized_return, volatility) ==
    LET ar == IF annualized_return = None
              THEN FinancialModel_calculate_annualized_return(self)
              ELSE Returns(annualized_return)
        vol == IF volatility = None
               THEN FinancialModel_calculate_annualized_volatility(self)
               ELSE volatility
    IN  IF ar.outcome = "raised" THEN SharpeOutcome(ar, None)
        ELSE SharpeOutcome(
                 Returns(FQuot(FPlus(ar.value, RNeg(self.risk_free_rate)), vol)), vol)

\* the outcome, together with the volatility that reached line 87 (None when
\* the call raised before)
FinancialModel_calculate_sharpe_ratio(self, annualized_return, volatility) ==
    LET ar == IF annualized_return = None
              THEN FinancialModel_calculate_annualized_return(self)
              ELSE Returns(annualized_return)
        vol == IF volatility = None
               THEN FinancialModel_calculate_annualized_volatility(self)
               ELSE volatility
    IN  IF ar.outcome = "raised" THEN SharpeOutcome(ar, None)
        ELSE IF vol = Zero THEN SharpeOutcome(Returns(Zero), vol)
        ELSE SharpeOutcome(
                 Returns(FQuot(FPlus(ar.value, RNeg(self.risk_free_rate)), vol)), vol)

\* self.returns[self.returns < target_return]
Below(returns, target_return) == SelectSeq(returns, LAMBDA x : RLt(x, target_return))

\* the outcome, together with the downside volatility that reached line 113
\* (None when the call raised before)
FinancialModel_calculate_sortino_ratio(self, annualized_return, target_return) ==
    LET ar == IF annualized_return = None
              THEN FinancialModel_calculate_annualized_return(self)
              ELSE Returns(annualized_return)
        downside_returns == Below(self.returns, target_return)
        downside_volatility == TimesSqrt(Std(downside_returns), TradingDays)
    IN  IF ar.outcome = "raised" THEN SharpeOutcome(ar, None)
        ELSE IF downside_volatility = Zero
        THEN SharpeOutcome(Returns(Zero), downside_volatility)
        ELSE SharpeOutcome(
                 Returns(FQuot(FPlus(ar.value, RNeg(target_return)), downside_volatility)),
                 downside_volatility)

RECURSIVE cumprod(_)
cumprod(s) ==
    IF s = <<>> THEN <<>>
    ELSE LET front == cumprod(SubSeq(s, 1, Len(s) - 1))
         IN  Append(front, IF front = <<>> THEN s[Len(s)]
                           ELSE RMul(front[Len(front)], s[Len(s)]))

\* Series.expanding().max()
RECURSIVE expanding_max(_)
expanding_max(s) ==
    IF s = <<>> THEN <<>>
    ELSE LET front == expanding_max(SubSeq(s, 1, Len(s) - 1))
         IN  Append(front, IF front = <<>> \/ RLe(front[Len(front)], s[Len(s)])
                           THEN s[Len(s)] ELSE front[Len(front)])

\* Series.min(): NaN for an empty Series
RECURSIVE SeriesMin(_)
SeriesMin(s) ==
    IF s = <<>> THEN NaN
    ELSE IF Len(s) = 1 THEN s[1]
    ELSE LET m == SeriesMin(Tail(s)) IN IF RLe(Head(s), m) THEN Head(s) ELSE m

FinancialModel_calculate_max_drawdown(self) ==
    LET cumulative == cumprod([t \in 1..Len(self.returns) |-> RAdd(One, self.returns[t])])
        running_max == expanding_max(cumulative)
        drawdown == [t \in 1..Len(cumulative) |->
                        RDiv(RSub(cumulative[t], running_max[t]), running_max[t])]
    IN  SeriesMin(drawdown)

----------------------------------------------------------------------------
(* PortfolioModel                                                          *)

\* __init__: weights None is the equal weighting; given weights are stored as
\* they are
PortfolioModel(returns, weights, risk_free_rate) ==
    [returns |-> returns,
     risk_free_rate |-> risk_free_rate,
     weights |-> IF ~weights.given
                 THEN [i \in 1..NCols(returns) |-> Rat(1, NCols(returns))]
                 ELSE weights.value]

\* numpy.isclose(a, 1.0): |a - 1| <= atol + rtol * 1 with atol = 1e-8, rtol = 1e-5
np_isclose_one(a) == RLe(RAbs(RSub(a, One)), Rat(1001, 100000000))

\* the weights stored as they are given
PortfolioModel_set_weights_unscaled(self, weights) == [self EXCEPT !.weights = weights]

PortfolioModel_set_weights(self, weights) ==
    [self EXCEPT !.weights =
        IF ~np_isclose_one(RSum(weights))
        THEN [i \in 1..Len(weights) |-> RDiv(weights[i], RSum(weights))]
        ELSE weights]

PortfolioModel_calculate_portfolio_return(self) ==
    RMul(RSum([i \in 1..NCols(self.returns) |->
                  RMul(Mean(Col(self.returns, i)), self.weights[i])]),
         Rat(TradingDays, 1))

PortfolioModel_calculate_portfolio_volatility(self) ==
    LET cov_matrix ==
            [i \in 1..NCols(self.returns) |->
                [j \in 1..NCols(self.returns) |->
                    RMul(Cov(Col(self.returns, i), Col(self.returns, j)),
                         Rat(TradingDays, 1))]]
        portfolio_var ==
            Dot(self.weights,
                [i \in 1..NCols(self.returns) |-> Dot(cov_matrix[i], self.weights)])
    IN  np_sqrt(portfolio_var)

PortfolioModel_calculate_portfolio_sharpe(self) ==
    LET ret == PortfolioModel_calculate_portfolio_return(self)
        vol == PortfolioModel_calculate_portfolio_volatility(self)
    IN  IF vol = Zero THEN Zero
        ELSE FDiv(RSub(ret, self.risk_free_rate), vol)

\* (self.returns * self.weights.values).sum(axis=1)
portfolio_returns(self) ==
    [t \in 1..NRows(self.returns) |->
        RSum([i \in 1..NCols(self.returns) |->
                 RMul(Rat(self.returns.rows[t][i], 100), self.weights[i])])]

Percent(confidence) == RMul(RSub(One, confidence), Rat(100, 1))

PortfolioModel_calculate_var(self, confidence) ==
    np_percentile(portfolio_returns(self), Percent(confidence))

\* the mean of the returns at or above the percentile
PortfolioModel_calculate_cvar_upper(self, confidence) ==
    LET var == np_percentile(portfolio_returns(self), Percent(confidence))
    IN  Mean(AtOrAbove(portfolio_returns(self), var))

PortfolioModel_calculate_cvar(self, confidence) ==
    LET var == np_percentile(portfolio_returns(self), Percent(confidence))
    IN  Mean(AtOrBelow(portfolio_returns(self), var))

----------------------------------------------------------------------------
(* One FinancialModel or one PortfolioModel and the calls made on it       *)

MaxPrices == 3

PriceValues == { 1, 2, 4 }

PriceSeries ==
    UNION { [1..n -> { Rat(p, 1) : p \in PriceValues }] : n \in 0..MaxPrices }

ModelRiskFreeRates == { Rat(4, 100), Zero }

PortfolioReturnMatrices ==
    ReturnMatrices
    \cup { [assets |-> <<"ETF1", "ETF2">>,
            rows |-> << <<-2, 1>>, <<1, -1>>, <<0, 3>>, <<2, 2>> >>] }

WeightArguments(n) == [1..n -> { Zero, One }]

NotGiven == [value |-> <<>>, given |-> FALSE]

Given(weights) == [value |-> weights, given |-> TRUE]

Confidences == { Rat(95, 100), Rat(1, 2), Rat(1, 5) }

ReturnArguments == { None, Rat(1, 10), Rat(4, 100), NaN, PosInf }

VolatilityArguments == { None, Zero, Rat(1, 5), NaN }

InitModels ==
    /\ \/ /\ \E prices \in PriceSeries, rf \in ModelRiskFreeRates :
                fm = FinancialModel(prices, rf)
          /\ pm = NoObject
       \/ /\ \E returns \in PortfolioReturnMatrices :
             \E weights \in { Given(w) : w \in WeightArguments(NCols(returns)) }
                             \cup { NotGiven } :
                pm = PortfolioModel(returns, weights, Rat(4, 100))
          /\ fm = NoObject
    /\ last = NoCall
    /\ opt = NoObject
    /\ heap = <<>>
    /\ results = <<>>
    /\ call = NoCall
    /\ ef = EfIdle
    /\ frontier = NoFrontier
    /\ MetricsUnused
    /\ DataUnused

SortinoReturnArguments == { None, Rat(1, 10) }

TargetReturnArguments == { Zero, Rat(2, 1) }

\* the record of a call: its operation and its outcome
Called(op, out) == [value |-> out.value, op |-> op, outcome |-> out.outcome]

ModelCall(record) ==
    /\ last' = record
    /\ UNCHANGED <<fm, pm, optimizerVars, metricsVars, dataVars>>

calculate_annualized_return ==
    /\ fm # NoObject
    /\ ModelCall(Called("calculate_annualized_return",
                        FinancialModel_calculate_annualized_return(fm)))

calculate_annualized_volatility ==
    /\ fm # NoObject
    /\ ModelCall(Called("calculate_annualized_volatility",
                        Returns(FinancialModel_calculate_annualized_volatility(fm))))

calculate_sharpe_ratio ==
    /\ fm # NoObject
    /\ \E annualized_return \in ReturnArguments, volatility \in VolatilityArguments :
          LET out == FinancialModel_calculate_sharpe_ratio(fm, annualized_return,
                                                           volatility)
          IN  ModelCall([volatility |-> out.volatility,
                         value |-> out.value,
                         op |-> "calculate_sharpe_ratio",
                         outcome |-> out.outcome,
                         annualized_return |-> annualized_return])

calculate_sortino_ratio ==
    /\ fm # NoObject
    /\ \E annualized_return \in SortinoReturnArguments,
          target_return \in TargetReturnArguments :
          LET out == FinancialModel_calculate_sortino_ratio(fm, annualized_return,
                                                            target_return)
          IN  ModelCall([volatility |-> out.volatility,
                         value |-> out.value,
                         op |-> "calculate_sortino_ratio",
                         outcome |-> out.outcome,
                         target_return |-> target_return,
                         annualized_return |-> annualized_return])

calculate_max_drawdown ==
    /\ fm # NoObject
    /\ ModelCall(Called("calculate_max_drawdown",
                        Returns(FinancialModel_calculate_max_drawdown(fm))))

set_weights ==
    /\ pm # NoObject
    /\ \E weights \in WeightArguments(NCols(pm.returns)) :
          /\ pm' = PortfolioModel_set_weights(pm, weights)
          /\ last' = [weights |-> weights, value |-> None,
                       op |-> "set_weights", outcome |-> "returned"]
    /\ UNCHANGED <<fm, optimizerVars, metricsVars, dataVars>>

calculate_portfolio_return ==
    /\ pm # NoObject
    /\ ModelCall(Called("calculate_portfolio_return",
                        Returns(PortfolioModel_calculate_portfolio_return(pm))))

calculate_portfolio_volatility ==
    /\ pm # NoObject
    /\ ModelCall(Called("calculate_portfolio_volatility",
                        Returns(PortfolioModel_calculate_portfolio_volatility(pm))))

calculate_portfolio_sharpe ==
    /\ pm # NoObject
    /\ ModelCall([volatility |-> PortfolioModel_calculate_portfolio_volatility(pm),
                  value |-> PortfolioModel_calculate_portfolio_sharpe(pm),
                  op |-> "calculate_portfolio_sharpe",
                  outcome |-> "returned"])

calculate_var ==
    /\ pm # NoObject
    /\ \E confidence \in Confidences :
          ModelCall([value |-> PortfolioModel_calculate_var(pm, confidence), op |-> "calculate_var",
                     outcome |-> "returned",
                     confidence |-> confidence])

calculate_cvar ==
    /\ pm # NoObject
    /\ \E confidence \in Confidences :
          ModelCall([value |-> PortfolioModel_calculate_cvar(pm, confidence), op |-> "calculate_cvar",
                     outcome |-> "returned",
                     confidence |-> confidence])

NextModels ==
    \/ calculate_annualized_return
    \/ calculate_annualized_volatility
    \/ calculate_sharpe_ratio
    \/ calculate_sortino_ratio
    \/ calculate_max_drawdown
    \/ set_weights
    \/ calculate_portfolio_return
    \/ calculate_portfolio_volatility
    \/ calculate_portfolio_sharpe
    \/ calculate_var
    \/ calculate_cvar

SpecModels == InitModels /\ [][NextModels]_vars

----------------------------------------------------------------------------
(* MetricsCalculator.calculate_monte_carlo_var and numpy's global random   *)
(* generator.  The generator is a library: it is modelled as a congruential*)
(* generator over 0..RngMod-1 whose state every numpy.random call of the   *)
(* process advances.                                                       *)

RngMod == 8

MaxSimulations == 3

MaxCalls == 2

NextRng(state) == (5 * state + 3) % RngMod

\* the standard normal deviate produced from a generator state
StdNormal(state) == (state % 5) - 2

RECURSIVE RngAfter(_, _)
RngAfter(state, draws) == IF draws = 0 THEN state ELSE RngAfter(NextRng(state), draws - 1)

\* numpy.random.normal(loc, scale, size) drawn from the generator in state
np_random_normal(state, loc, scale, size) ==
    [k \in 1..size |-> RAdd(loc, RMul(scale, Rat(StdNormal(RngAfter(state, k)), 1)))]

\* (VaR, CVaR); the samples come from the global generator
calculate_monte_carlo_var_of(state, returns, confidence, simulations) ==
    LET mean == Mean(returns)
        std == Std(returns)
        simulated_returns == np_random_normal(state, mean, std, simulations)
        var == np_percentile(simulated_returns, Percent(confidence))
        cvar == Mean(AtOrBelow(simulated_returns, var))
    IN  <<var, cvar>>

\* return series (in percent) whose standard deviation is rational
SampleReturns == { <<1, 2, 3>>, <<-2, 0, 2>>, <<0, 0>> }

AsReturns(s) == [t \in 1..Len(s) |-> Rat(s[t], 100)]

InitMetrics ==
    /\ rng \in 0..(RngMod - 1)
    /\ sims = <<>>
    /\ opt = NoObject
    /\ heap = <<>>
    /\ results = <<>>
    /\ call = NoCall
    /\ ef = EfIdle
    /\ frontier = NoFrontier
    /\ ModelsUnused
    /\ DataUnused

calculate_monte_carlo_var ==
    /\ Len(sims) < MaxCalls
    /\ \E returns \in SampleReturns, confidence \in { Rat(95, 100), Rat(1, 2) },
          simulations \in 1..MaxSimulations :
          /\ sims' = Append(sims,
                       [returns |-> returns,
                        value |-> calculate_monte_carlo_var_of(
                                      rng, AsReturns(returns), confidence, simulations),
                        confidence |-> confidence,
                        simulations |-> simulations])
          /\ rng' = RngAfter(rng, simulations)
    /\ UNCHANGED <<optimizerVars, modelVars, dataVars>>

\* any other numpy.random call of the process, as the draws of the fixtures
np_random_draw ==
    /\ rng' = NextRng(rng)
    /\ UNCHANGED <<sims, optimizerVars, modelVars, dataVars>>

NextMetrics ==
    \/ calculate_monte_carlo_var
    \/ np_random_draw

SpecMetrics == InitMetrics /\ [][NextMetrics]_vars

----------------------------------------------------------------------------
(* The static methods of MetricsCalculator that take a weight vector       *)

\* longest weight vector given to the concentration measures
MaxWeights == 3

\* the weights given lie on the grid k / WeightDen
WeightDen == 4

\* the sum of the weights in place of the sum of their squares
calculate_herfindahl_index_linear(weights) == RSum(weights)

\* (weights ** 2).sum()
calculate_herfindahl_index_of(weights) ==
    RSum([i \in 1..Len(weights) |-> RMul(weights[i], weights[i])])

calculate_effective_n_of(weights) ==
    LET hhi == calculate_herfindahl_index_of(weights)
    IN  IF hhi = Zero THEN Zero ELSE RDiv(One, hhi)

EqualWeights(n) == [i \in 1..n |-> Rat(1, n)]

\* the weight vectors of at most longest weights: the equal weightings and the
\* vectors of the grid
ConcentrationWeights(longest) ==
    { EqualWeights(n) : n \in 1..(longest + 1) }
    \cup UNION { { [i \in 1..n |-> Rat(f[i], WeightDen)] : f \in [1..n -> 0..WeightDen] } :
                   n \in 1..longest }

InitStatic ==
    /\ last = NoCall
    /\ fm = NoObject
    /\ pm = NoObject
    /\ opt = NoObject
    /\ heap = <<>>
    /\ results = <<>>
    /\ call = NoCall
    /\ ef = EfIdle
    /\ frontier = NoFrontier
    /\ MetricsUnused
    /\ DataUnused

calculate_herfindahl_index ==
    \E weights \in ConcentrationWeights(MaxWeights) :
        ModelCall([weights |-> weights, value |-> calculate_herfindahl_index_of(weights),
                   op |-> "calculate_herfindahl_index",
                   outcome |-> "returned"])

calculate_effective_n ==
    \E weights \in ConcentrationWeights(MaxWeights) :
        ModelCall([weights |-> weights, value |-> calculate_effective_n_of(weights),
                   op |-> "calculate_effective_n",
                   outcome |-> "returned"])

NextStatic ==
    \/ calculate_herfindahl_index
    \/ calculate_effective_n

SpecStatic == InitStatic /\ [][NextStatic]_vars

----------------------------------------------------------------------------
(* The static methods of MetricsCalculator that take a price series or a   *)
(* return series                                                           *)

\* longest price or return series given to the methods
MaxSeries == 3

SeriesPrices ==
    UNION { [1..n -> { Rat(p, 1) : p \in PriceValues }] : n \in 0..MaxSeries }

ReturnValues == { Rat(-1, 2), Zero, One }

\* a series long enough for nsmallest(5) to leave entries out
LongReturns == << One, Rat(-1, 2), Zero, One, Rat(-1, 2), One >>

ReturnSeries ==
    UNION { [1..n -> ReturnValues] : n \in 0..MaxSeries } \cup { LongReturns }

\* numpy.log of a positive number: log(1) is 0, any other value is kept
\* unevaluated
np_log(x) == IF IsNaN(x) THEN NaN ELSE IF x = One THEN Zero ELSE [log |-> x]

\* prices / prices.shift(periods): NaN in the first periods positions
shift_ratio(prices, periods) ==
    [t \in 1..Len(prices) |->
        IF t <= periods THEN NaN ELSE RDiv(prices[t], prices[t - periods])]

\* prices.pct_change(periods) keeps the index of prices; nothing drops the
\* NaN entries
calculate_returns_of(prices, method, periods) ==
    IF method = "log"
    THEN [t \in 1..Len(prices) |-> np_log(shift_ratio(prices, periods)[t])]
    ELSE [t \in 1..Len(prices) |-> RSub(shift_ratio(prices, periods)[t], One)]

\* Series.cumprod() (skipna): NaN where the entry is NaN, the product of the
\* entries that are not NaN elsewhere
RECURSIVE ProductSkipNa(_)
ProductSkipNa(s) ==
    IF s = <<>> THEN One
    ELSE LET front == ProductSkipNa(SubSeq(s, 1, Len(s) - 1))
         IN  IF IsNaN(s[Len(s)]) THEN front ELSE RMul(front, s[Len(s)])

Series_cumprod(s) ==
    [t \in 1..Len(s) |-> IF IsNaN(s[t]) THEN NaN ELSE ProductSkipNa(SubSeq(s, 1, t))]

calculate_cumulative_returns_of(returns) ==
    LET cumulative == Series_cumprod([t \in 1..Len(returns) |-> RAdd(One, returns[t])])
    IN  [t \in 1..Len(returns) |-> RSub(cumulative[t], One)]

\* (returns > 0).sum(): NaN > 0 is False
CountPositive(returns) == Len(SelectSeq(returns, LAMBDA x : RLt(Zero, x)))

\* the count of the entries >= 0 in place of the entries > 0
calculate_win_rate_nonnegative(returns) ==
    IF Len(returns) = 0 THEN Zero
    ELSE Rat(Len(SelectSeq(returns, LAMBDA x : RLe(Zero, x))), Len(returns))

calculate_win_rate_of(returns) ==
    IF Len(returns) = 0 THEN Zero
    ELSE Rat(CountPositive(returns), Len(returns))

\* int(x) for a rational x: truncation towards zero
int(x) == Sgn(x.n) * ((Abs(x.n)) \div x.d)

\* Series.nsmallest(n): the n smallest entries, all of them when n exceeds
\* the length, none when n <= 0
nsmallest(returns, n) ==
    LET sorted == SortAsc(returns)
    IN  IF n <= 0 THEN <<>>
        ELSE IF n >= Len(sorted) THEN sorted
        ELSE SubSeq(sorted, 1, n)

calculate_stress_test_of(returns, percentile) ==
    LET worst_returns ==
            nsmallest(returns,
                      int(RDiv(RMul(Rat(Len(returns), 1), percentile), Rat(100, 1))))
    IN  [worst_return |-> SeriesMin(worst_returns),
         avg_worst_return |-> Mean(worst_returns),
         worst_5_return |-> Mean(nsmallest(returns, 5)),
         worst_10_return |-> Mean(nsmallest(returns, 10))]

Methods == { "simple", "log" }

Periods == { 1, 2 }

Percentiles == { One, Rat(50, 1), Rat(100, 1) }

calculate_returns ==
    \E prices \in SeriesPrices, method \in Methods, periods \in Periods :
        ModelCall([value |-> calculate_returns_of(prices, method, periods), op |-> "calculate_returns", outcome |-> "returned",
                   prices |-> prices,
                   periods |-> periods,
                   method |-> method])

\* the argument is a return series or the Series the preceding
\* calculate_returns call returned
calculate_cumulative_returns ==
    \E returns \in ReturnSeries
                   \cup (IF last.op = "calculate_returns" /\ last.method = "simple"
                         THEN { last.value } ELSE {}) :
        ModelCall([returns |-> returns,
                   value |-> calculate_cumulative_returns_of(returns),
                   op |-> "calculate_cumulative_returns",
                   outcome |-> "returned"])

calculate_win_rate ==
    \E returns \in ReturnSeries
                   \cup (IF last.op = "calculate_returns" /\ last.method = "simple"
                         THEN { last.value } ELSE {}) :
        ModelCall([returns |-> returns,
                   value |-> calculate_win_rate_of(returns),
                   op |-> "calculate_win_rate",
                   outcome |-> "returned"])

calculate_stress_test ==
    \E returns \in ReturnSeries, percentile \in Percentiles :
        ModelCall([returns |-> returns, value |-> calculate_stress_test_of(returns, percentile),
                   op |-> "calculate_stress_test",
                   outcome |-> "returned",
                   percentile |-> percentile])

NextSeries ==
    \/ calculate_returns
    \/ calculate_cumulative_returns
    \/ calculate_win_rate
    \/ calculate_stress_test

SpecSeries == InitStatic /\ [][NextSeries]_vars

----------------------------------------------------------------------------
(* DataManager.  A dictionary is the set of its (key, value) pairs; the    *)
(* DataFrame of a ticker is identified by the date range it was fetched    *)
(* for.  yfinance and the file system are the environment: a download      *)
(* returns rows, returns no rows or raises, and writing the cache file     *)
(* may fail.                                                               *)

\* longest ticker list given to fetch_data
MaxTickers == 2

Tickers == { "VAS", "VGS" }

StartDates == { "2020-01-01", "2021-01-01" }

EndDates == { "2024-12-31" }

TickerLists == UNION { [1..n -> Tickers] : n \in 0..MaxTickers }

\* yf.download and df.to_parquet: rows downloaded and cached, rows downloaded
\* and to_parquet raising, no rows, download raising
Downloads == { "rows", "rows_not_cached", "empty", "raises" }

CacheDirs == { "data/cache" }

DataManager(cache_dir) == [cache_dir |-> cache_dir, data |-> {}]

_get_cache_path(self, ticker, start_date, end_date) ==
    <<self.cache_dir, ticker, start_date, end_date>>

Keys(dict) == { item[1] : item \in dict }

\* dict[key] = value
dict_set(dict, key, value) == { item \in dict : item[1] # key } \cup { <<key, value>> }

\* the results in place of the updated dictionary
dict_replace(dict, other) == other

\* dict.update(other)
dict_update(dict, other) == { item \in dict : item[1] \notin Keys(other) } \cup other

\* the loop of fetch_data over the first k tickers: the results dictionary,
\* the cache files and what happened to each ticker
RECURSIVE FetchLoop(_, _, _, _, _, _, _, _)
FetchLoop(self, files, tickers, start_date, end_date, use_cache, downloads, k) ==
    IF k = 0 THEN [results |-> {}, files |-> files, events |-> <<>>]
    ELSE LET before == FetchLoop(self, files, tickers, start_date, end_date,
                                 use_cache, downloads, k - 1)
             ticker == tickers[k]
             cache_path == _get_cache_path(self, ticker, start_date, end_date)
             df == <<start_date, end_date>>
         IN  IF use_cache /\ cache_path \in before.files
             THEN [results |-> dict_set(before.results, ticker, df),
                   files |-> before.files,
                   events |-> Append(before.events, "cache")]
             ELSE IF downloads[k] = "rows"
             THEN [results |-> dict_set(before.results, ticker, df),
                   files |-> before.files \cup { cache_path },
                   events |-> Append(before.events, "rows")]
             ELSE IF downloads[k] = "rows_not_cached"
             THEN [results |-> dict_set(before.results, ticker, df),
                   files |-> before.files,
                   events |-> Append(before.events, "rows_not_cached")]
             ELSE [results |-> before.results,
                   files |-> before.files,
                   events |-> Append(before.events, downloads[k])]

EmptyFrame == [rows |-> "none", columns |-> {}]

\* pd.concat of no frames raises ValueError
DataManager_get_combined_data_unguarded(self) ==
    IF self.data = {} THEN Raises("ValueError")
    ELSE Returns([rows |-> "prices", columns |-> Keys(self.data)])

DataManager_get_combined_data(self) ==
    IF self.data = {} THEN Returns(EmptyFrame)
    ELSE Returns([rows |-> "prices", columns |-> Keys(self.data)])

DataManager_get_returns(self, method) ==
    LET combined == DataManager_get_combined_data(self)
    IN  IF combined.outcome = "raised" THEN combined
        ELSE IF combined.value.columns = {} THEN Returns(EmptyFrame)
        ELSE Returns([rows |-> method, columns |-> combined.value.columns])

InitData ==
    /\ \E cache_dir \in CacheDirs : dm = DataManager(cache_dir)
    /\ disk = {}
    /\ last = NoCall
    /\ fm = NoObject
    /\ pm = NoObject
    /\ opt = NoObject
    /\ heap = <<>>
    /\ results = <<>>
    /\ call = NoCall
    /\ ef = EfIdle
    /\ frontier = NoFrontier
    /\ MetricsUnused

\* last also records the dictionary and the cache files of before the call
fetch_data ==
    \E tickers \in TickerLists, start_date \in StartDates, end_date \in EndDates,
       use_cache \in BOOLEAN :
        \E downloads \in [1..Len(tickers) -> Downloads] :
            LET out == FetchLoop(dm, disk, tickers, start_date, end_date, use_cache,
                                 downloads, Len(tickers))
            IN  /\ dm' = [dm EXCEPT !.data = dict_update(dm.data, out.results)]
                /\ disk' = out.files
                /\ last' = [value |-> out.results, op |-> "fetch_data",
                            outcome |-> "returned", start_date |-> start_date,
                            end_date |-> end_date, tickers |-> tickers,
                            use_cache |-> use_cache, events |-> out.events]
                /\ UNCHANGED <<fm, pm, optimizerVars, metricsVars>>

DataCall(record) ==
    /\ last' = record
    /\ UNCHANGED <<fm, pm, dm, disk, optimizerVars, metricsVars>>

get_combined_data ==
    DataCall(Called("get_combined_data", DataManager_get_combined_data(dm)))

get_returns ==
    \E method \in { "log", "simple" } :
        DataCall(Called("get_returns", DataManager_get_returns(dm, method)))

\* shutil.rmtree(self.cache_dir) and _ensure_cache_dir()
clear_cache ==
    /\ disk' = {}
    /\ last' = Called("clear_cache", Returns(None))
    /\ UNCHANGED <<fm, pm, dm, optimizerVars, metricsVars>>

NextData ==
    \/ fetch_data
    \/ get_combined_data
    \/ get_returns
    \/ clear_cache

SpecData == InitData /\ [][NextData]_vars

----------------------------------------------------------------------------
(* Properties of PortfolioOptimizer                                        *)

Weights(r) == heap[r.weights]

LastResult == results[Len(results)]

Returned(op) == call.op = op /\ call.outcome = "returned"

SumsToOne(w) == RLe(RAbs(RSub(RSum(w), One)), Rat(1, 1000000))

\* C1: every weight vector an operation returned sums to 1 within 1e-6 and has
\* every component between min_weight and max_weight.
C1_ReturnedWeightsValid ==
    \A i \in 1..Len(results) : SumsToOne(Weights(results[i])) /\ InBounds(opt, Weights(results[i]))

\* C2: an optimize_* call whose solver did not converge reports a failure; it
\* does not return an OptimizationResult.
C2_NonConvergenceReported ==
    (call.solver = "failed") => (call.outcome = "raised")

\* C3: when generate_efficient_frontier has returned, every target whose solve
\* did not converge is left out: the points returned and the targets that did
\* not converge add up to num_portfolios.
C3_FailedTargetsSkipped ==
    Returned("generate_efficient_frontier") =>
        /\ Len(frontier.returns) + call.nonconverged = call.num_portfolios
        /\ Len(frontier.volatilities) = Len(frontier.returns)
        /\ Len(frontier.sharpe_ratios) = Len(frontier.returns)

\* C4: no call changes the optimizer's attributes or a result returned earlier
\* (the record and the array its weights refer to), and no two results share
\* their weights array.
C4_NoCallChangesStateOrResults ==
    /\ [](\A i, j \in 1..Len(results) : i # j => results[i].weights # results[j].weights)
    /\ [][/\ opt' = opt
          /\ \A i \in 1..Len(results) :
                /\ i <= Len(results')
                /\ results'[i] = results[i]
                /\ heap'[results'[i].weights] = heap[results[i].weights]]_vars

\* two results with equal weights held in two arrays, the second returned by a
\* later call
C4_Witness ==
    /\ Len(results) = 2
    /\ Weights(results[1]) = Weights(results[2])
    /\ results[1].weights # results[2].weights

\* C6: a result whose volatility is 0 has Sharpe ratio 0.
C6_ZeroVolatilitySharpeIsZero ==
    \A i \in 1..Len(results) :
        (results[i].volatility = Zero) => (results[i].sharpe_ratio = Zero)

\* C10: equal_weight returns 1/n for each of the n assets, the weights sum to 1
\* and the solver is not called.
C10_EqualWeightClosedForm ==
    (call.op = "equal_weight") =>
        /\ call.outcome = "returned"
        /\ call.solves = 0
        /\ Len(Weights(LastResult)) = Len(opt.assets)
        /\ \A i \in 1..Len(opt.assets) : Weights(LastResult)[i] = Rat(1, Len(opt.assets))
        /\ RSum(Weights(LastResult)) = One

C10_Witness ==
    /\ Returned("equal_weight")
    /\ Len(opt.assets) = 2
    /\ Weights(LastResult) = <<Rat(1, 2), Rat(1, 2)>>

\* C12: the result optimize_target_return(target) returns satisfies the
\* bounds and the two constraints, its expected_return is target, and no
\* such weight vector has a lower volatility.
C12_TargetReturnAttained ==
    Returned("optimize_target_return") =>
        /\ Feasible(opt, call.cons, Weights(LastResult))
        /\ LastResult.expected_return = call.cons.target
        /\ \A y \in Grid(Len(opt.assets)) :
              Feasible(opt, call.cons, y)
              => VLe(LastResult.volatility, _calculate_portfolio_metrics(opt, y)[2])

RECURSIVE SumTo(_, _)
SumTo(f, n) == IF n = 0 THEN 0 ELSE SumTo(f, n - 1) + f[n]

\* C23: cap_weight(caps) returns cap_i / sum_j cap_j over the assets, with cap
\* 1 for an asset missing from caps and keys that are not assets ignored; the
\* weights sum to 1 when the caps used do not sum to 0.
C23_CapWeightClosedForm ==
    call.op = "cap_weight" =>
        /\ call.outcome = "returned"
        /\ call.solves = 0
        /\ \E market_caps \in MarketCaps(opt) :
              Weights(LastResult) = cap_weight_array(opt, market_caps)
        /\ \A market_caps \in MarketCaps(opt) :
              LET n == Len(opt.assets)
                  used == [i \in 1..n |-> IF opt.assets[i] \in DOMAIN market_caps
                                          THEN market_caps[opt.assets[i]] ELSE 1]
                  total == SumTo(used, n)
                  own == DOMAIN market_caps \cap { opt.assets[i] : i \in 1..n }
                  w == cap_weight_array(opt, market_caps)
              IN  /\ Len(w) = n
                  /\ \A i \in 1..n : w[i] = RDiv(Rat(used[i], 1), Rat(total, 1))
                  /\ total # 0 => RSum(w) = One
                  /\ w = cap_weight_array(opt, [k \in own |-> market_caps[k]])

\* ETF1 with cap 3, ETF2 missing from caps
C23_Witness ==
    /\ Returned("cap_weight")
    /\ Len(opt.assets) = 2
    /\ Weights(LastResult) = <<Rat(3, 4), Rat(1, 4)>>

NonDecreasingSeq(s) == \A i, j \in 1..Len(s) : i < j => RLe(s[i], s[j])

C14_TargetsEvenlySpaced ==
    (ef.pc = "loop" /\ ef.num_portfolios >= 1) =>
        IF ef.min_ret = ef.max_ret
        THEN Len(ef.target_returns) = 1
        ELSE /\ Len(ef.target_returns) = ef.num_portfolios
             /\ ef.num_portfolios >= 2 =>
                   /\ ef.target_returns[1] = ef.min_ret
                   /\ ef.target_returns[ef.num_portfolios] = ef.max_ret
                   /\ \A k \in 1..(ef.num_portfolios - 1) :
                         RSub(ef.target_returns[k + 1], ef.target_returns[k])
                         = RDiv(RSub(ef.max_ret, ef.min_ret),
                                Rat(ef.num_portfolios - 1, 1))

\* min_weight > max_weight, or n * min_weight > 1, or n * max_weight < 1
InfeasibleBounds(self) ==
    \/ RLt(self.max_weight, self.min_weight)
    \/ RLt(One, RMul(Rat(Len(self.assets), 1), self.min_weight))
    \/ RLt(RMul(Rat(Len(self.assets), 1), self.max_weight), One)

\* C15: under infeasible bounds no operation returns a weight vector or a
\* frontier: every call raises.
C15_InfeasibleBoundsRejected ==
    InfeasibleBounds(opt) =>
        /\ results = <<>>
        /\ call.op # "__init__" => call.outcome = "raised"

ConvergedAt(self, fun) ==
    { out.x : out \in { o \in minimize(self, fun, NoTarget) : o.status = "converged" } }

----------------------------------------------------------------------------
(* Properties of FinancialModel and PortfolioModel                         *)

\* C5: a FinancialModel.calculate_sharpe_ratio call whose volatility at the
\* test of line 87 is 0, and a PortfolioModel.calculate_portfolio_sharpe call
\* whose computed volatility is 0, return exactly 0 and do not raise.
C5_ZeroVolatilitySharpeReturnsZero ==
    (last.op \in { "calculate_sharpe_ratio", "calculate_portfolio_sharpe" }
        /\ last.volatility = Zero)
    => (last.outcome = "returned" /\ last.value = Zero)

\* the prices 1, 2, 4 have the constant return 1: the computed volatility is 0
\* while the annualized return is above the risk-free rate
C5_Witness ==
    /\ last.op = "calculate_sharpe_ratio"
    /\ fm.prices = <<Rat(1, 1), Rat(2, 1), Rat(4, 1)>>
    /\ last.annualized_return = None
    /\ last.volatility = Zero
    /\ FinancialModel_calculate_annualized_volatility(fm) = Zero
    /\ last.value = Zero

HasLeftTail(self) ==
    \E t \in 1..NRows(self.returns) : RLt(portfolio_returns(self)[t], Zero)

LeftTail(self, confidence) ==
    AtOrBelow(portfolio_returns(self), PortfolioModel_calculate_var(self, confidence))

C29_SetWeightsNormalizes ==
    [][(last'.op = "set_weights" /\ RSum(last'.weights) # Zero) =>
          /\ last'.outcome = "returned"
          /\ np_isclose_one(RSum(pm'.weights))
          /\ pm'.weights =
                IF np_isclose_one(RSum(last'.weights)) THEN last'.weights
                ELSE [i \in 1..Len(last'.weights) |->
                         RDiv(last'.weights[i], RSum(last'.weights))]
          /\ pm'.returns = pm.returns
          /\ pm'.risk_free_rate = pm.risk_free_rate
          /\ fm' = fm]_vars

\* weights summing to 2 stored as halves
C29_Witness ==
    /\ last.op = "set_weights"
    /\ last.weights = <<One, One>>
    /\ pm.weights = <<Rat(1, 2), Rat(1, 2)>>

NonDecreasing(prices) ==
    \A t \in 1..(Len(prices) - 1) : RLe(prices[t], prices[t + 1])

\* C9: calculate_max_drawdown returns a value <= 0, and exactly 0 when the
\* prices are non-decreasing (a single price included).
C9_MaxDrawdownNonPositive ==
    (last.op = "calculate_max_drawdown") =>
        /\ RLe(last.value, Zero)
        /\ NonDecreasing(fm.prices) => last.value = Zero

----------------------------------------------------------------------------
(* Properties of calculate_monte_carlo_var                                 *)

\* C8: two calculate_monte_carlo_var calls with the same returns, confidence
\* and simulations return the same (VaR, CVaR), whatever was drawn from the
\* generator between them.
C8_MonteCarloReproducible ==
    \A i, j \in 1..Len(sims) :
        (/\ sims[i].returns = sims[j].returns
         /\ sims[i].confidence = sims[j].confidence
         /\ sims[i].simulations = sims[j].simulations)
        => sims[i].value = sims[j].value

----------------------------------------------------------------------------
(* Properties of the concentration measures                                *)

\* C16: a PortfolioModel never holds weights whose sum is outside the
\* tolerance of 1, and set_weights with such weights raises instead of
\* returning.
C16_WeightsOutsideToleranceRejected ==
    /\ pm # NoObject => np_isclose_one(RSum(pm.weights))
    /\ (last.op = "set_weights" /\ ~np_isclose_one(RSum(last.weights)))
       => last.outcome = "raised"

\* C21: calculate_sortino_ratio with an explicit annualized_return returns
\* exactly 0 when fewer than two period returns are below target_return or
\* their standard deviation is 0, and otherwise (annualized_return -
\* target_return) / (std of the sub-target returns * sqrt(252)).
C21_SortinoZeroWithoutDownside ==
    (last.op = "calculate_sortino_ratio" /\ last.annualized_return # None) =>
        LET downside == Below(fm.returns, last.target_return)
        IN  /\ last.outcome = "returned"
            /\ IF Len(downside) < 2 \/ Std(downside) = Zero
               THEN last.value = Zero
               ELSE last.value =
                       FQuot(RSub(last.annualized_return, last.target_return),
                             TimesSqrt(Std(downside), TradingDays))

\* C20: calculate_annualized_return returns, never raises; the value is 0 for
\* fewer than 2 prices and (P_last / P_first) ^ (252 / n) - 1 for n >= 2 prices.
C20_AnnualizedReturnTotal ==
    last.op = "calculate_annualized_return" =>
        /\ last.outcome = "returned"
        /\ IF Len(fm.prices) < 2
           THEN last.value = Zero
           ELSE last.value =
                   FPlus(FPow(RDiv(fm.prices[Len(fm.prices)], fm.prices[1]),
                              Rat(TradingDays, Len(fm.prices))),
                         RNeg(One))

\* C11: for n equal weights 1/n, calculate_herfindahl_index is 1/n and
\* calculate_effective_n is n; for non-negative weights that sum to 1 the index
\* is in (0, 1].
C11_EqualWeightsConcentration ==
    /\ (last.op = "calculate_herfindahl_index"
          /\ last.weights = EqualWeights(Len(last.weights)))
       => last.value = Rat(1, Len(last.weights))
    /\ (last.op = "calculate_effective_n"
          /\ last.weights = EqualWeights(Len(last.weights)))
       => last.value = Rat(Len(last.weights), 1)
    /\ (last.op = "calculate_herfindahl_index"
          /\ (\A i \in 1..Len(last.weights) : RLe(Zero, last.weights[i]))
          /\ RSum(last.weights) = One)
       => (RLt(Zero, last.value) /\ RLe(last.value, One))

\* the index of three equal weights
C11_Witness ==
    /\ last.op = "calculate_herfindahl_index"
    /\ last.weights = <<Rat(1, 3), Rat(1, 3), Rat(1, 3)>>
    /\ last.value = Rat(1, 3)

----------------------------------------------------------------------------
(* Properties of the series methods of MetricsCalculator                   *)

\* a == b of two floats: NaN equals nothing, itself included
FEq(a, b) == ~IsNaN(a) /\ ~IsNaN(b) /\ a = b

Defined(s) == SelectSeq(s, LAMBDA x : ~IsNaN(x))

\* C22: for a non-empty return series, worst_return is the minimum of the
\* whole series, avg_worst_return the mean of the worst p% of the periods,
\* worst_5_return and worst_10_return the means of the 5 and 10 smallest.
C22_StressTestWorstIsMinimum ==
    (last.op = "calculate_stress_test" /\ last.returns # <<>>) =>
        /\ last.value.worst_return = SeriesMin(last.returns)
        /\ last.value.avg_worst_return =
              Mean(nsmallest(last.returns,
                             int(RDiv(RMul(Rat(Len(last.returns), 1), last.percentile),
                                      Rat(100, 1)))))
        /\ \A p \in Percentiles :
              /\ last.value.worst_5_return =
                    calculate_stress_test_of(last.returns, p).worst_5_return
              /\ last.value.worst_10_return =
                    calculate_stress_test_of(last.returns, p).worst_10_return
        /\ last.value.worst_5_return = Mean(nsmallest(last.returns, 5))
        /\ last.value.worst_10_return = Mean(nsmallest(last.returns, 10))

\* C24: calculate_win_rate is the number of strictly positive returns divided
\* by the number of periods, 0 for an empty series, and lies in [0, 1].
C24_WinRateIsPositiveFraction ==
    last.op = "calculate_win_rate" =>
        /\ last.returns = <<>> => last.value = Zero
        /\ last.returns # <<>> =>
              last.value = Rat(Cardinality({ t \in 1..Len(last.returns) :
                                                ~IsNaN(last.returns[t])
                                                /\ last.returns[t].n > 0
                                                /\ last.returns[t].d > 0 }),
                               Len(last.returns))
        /\ RLe(Zero, last.value)
        /\ RLe(last.value, One)

\* positive, zero and negative returns in one series
C24_Witness ==
    /\ last.op = "calculate_win_rate"
    /\ last.returns = << One, Zero, Rat(-1, 2) >>
    /\ last.value = Rat(1, 3)

\* C25: for two or more prices, calculate_returns with the simple method and
\* periods = 1 yields fewer entries than prices, one of them at least defined.
C25_ReturnsShorterThanPrices ==
    (/\ last.op = "calculate_returns"
     /\ last.method = "simple"
     /\ last.periods = 1
     /\ Len(last.prices) >= 2)
    => /\ Len(last.value) < Len(last.prices)
       /\ Len(Defined(last.value)) > 0

RECURSIVE RunningProduct(_, _)
RunningProduct(returns, t) ==
    IF t = 0 THEN One ELSE RMul(RunningProduct(returns, t - 1), RAdd(One, returns[t]))

\* C26: for returns = calculate_returns(prices), entry t of
\* calculate_cumulative_returns(returns) equals the product of 1 + r_i over
\* i <= t, minus 1; the first entry equals the first entry of returns.
C26_CumulativeIsRunningProduct ==
    (/\ last.op = "calculate_cumulative_returns"
     /\ last.returns # <<>>
     /\ \E prices \in SeriesPrices :
           last.returns = calculate_returns_of(prices, "simple", 1))
    => /\ \A t \in 1..Len(last.returns) :
             FEq(last.value[t], RSub(RunningProduct(last.returns, t), One))
       /\ FEq(last.value[1], last.returns[1])

----------------------------------------------------------------------------
(* Properties of DataManager                                               *)

\* C27: while no ticker is loaded, cache_dir is a directory name (not None) and
\* get_combined_data() and get_returns() return an empty table.
C27_EmptyManagerReturnsEmptyTable ==
    dm.data = {} =>
        /\ dm.cache_dir \in CacheDirs
        /\ last.op \in { "get_combined_data", "get_returns" }
           => /\ last.outcome = "returned"
              /\ last.value.columns = {}

\* get_returns on a manager whose only fetch_data call loaded nothing
C27_Witness ==
    /\ dm.data = {}
    /\ last.op = "get_returns"
    /\ last.outcome = "returned"
    /\ last.value = EmptyFrame

\* position i of the fetch_data call a step makes is a failed download
Failed(events, i) == events[i] \in { "empty", "raises" }

====
